---- MODULE Spec2Model ----
(***************************************************************************)
(* HyperCLOVAXLargeLanguageModel (src/models/llm/llm.py): the credential   *)
(* augmenter, the parameter mapper and the two facade entry points that    *)
(* delegate to the OpenAI-compatible base client.                          *)
(*                                                                         *)
(* A Python dict is a function whose DOMAIN is its set of keys; the empty  *)
(* dict is <<>>.  Strings are strings, lists are sequences, and Python's   *)
(* None is the value None below, which no caller-supplied string equals.   *)
(***************************************************************************)
EXTENDS Integers, Sequences, FiniteSets, TLC

VARIABLES
    credentials,        \* the caller-owned credentials dict
    model_parameters,   \* the caller-owned model-parameters dict
    call,               \* the arguments of the most recent facade call
    base_invoke,        \* what the base client's _invoke last received
    base_validate,      \* what the base client's validate_credentials last received
    model,              \* the model identifier given to _update_model_parameters
    param_in,           \* the dict as it was before the first mapper call
    returned            \* the values returned by the mapper calls, in order

vars == <<credentials, model_parameters, call, base_invoke, base_validate,
          model, param_in, returned>>

-----------------------------------------------------------------------------
(* Bounds of the model. *)

\* Token counts range over 1..MaxTokenValue.
MaxTokenValue == 2

\* How many times in a row the mapper is applied to the same dict.
MaxApply == 2

-----------------------------------------------------------------------------
(* Python values. *)

None == "None"

EmptyDict == <<>>

\* d[k] = v
SetItem(d, k, v) == [x \in DOMAIN d \cup {k} |-> IF x = k THEN v ELSE d[x]]

\* the dict left by d.pop(k)
Popped(d, k) == [x \in DOMAIN d \ {k} |-> d[x]]

\* {**d, **e}
Merge(d, e) == [x \in DOMAIN d \cup DOMAIN e |-> IF x \in DOMAIN e THEN e[x] ELSE d[x]]

\* the dicts that either lack key k or hold one of vals under it
Optional(k, vals) == {EmptyDict} \cup {[x \in {k} |-> v] : v \in vals}

-----------------------------------------------------------------------------
(* Literals of the source. *)

EndpointUrl == "https://clovastudio.stream.ntruss.com/v1/openai"

\* LLMMode.CHAT.value
ChatMode == "chat"

ToolCallModels == {"HCX-007", "HCX-005", "HCX-DASH-002"}

FlagKeys == {"endpoint_url", "mode", "function_calling_type",
             "stream_function_calling", "vision_support"}

-----------------------------------------------------------------------------
(* _add_custom_parameters: the credentials dict after the call. *)

\* Variants of _add_custom_parameters with one slip each.
\* The else branch of the tool-call test writes nothing.
_add_custom_parameters_no_tool_else(creds, mdl) ==
    LET c2 == SetItem(SetItem(creds, "endpoint_url", EndpointUrl), "mode", ChatMode)
        c3 == IF mdl \in ToolCallModels
                THEN SetItem(SetItem(c2, "function_calling_type", "tool_call"),
                             "stream_function_calling", "support")
                ELSE c2
    IN  IF mdl = "HCX-005"
          THEN SetItem(c3, "vision_support", "support")
          ELSE SetItem(c3, "vision_support", "no_support")

\* The else branch of the vision test writes nothing.
_add_custom_parameters_no_vision_else(creds, mdl) ==
    LET c2 == SetItem(SetItem(creds, "endpoint_url", EndpointUrl), "mode", ChatMode)
        c3 == IF mdl \in ToolCallModels
                THEN SetItem(SetItem(c2, "function_calling_type", "tool_call"),
                             "stream_function_calling", "support")
                ELSE SetItem(SetItem(c2, "function_calling_type", None),
                             "stream_function_calling", "no_support")
    IN  IF mdl = "HCX-005"
          THEN SetItem(c3, "vision_support", "support")
          ELSE c3

\* endpoint_url is written with setdefault: a value already there is kept.
_add_custom_parameters_setdefault_url(creds, mdl) ==
    LET c1 == IF "endpoint_url" \in DOMAIN creds
                THEN creds
                ELSE SetItem(creds, "endpoint_url", EndpointUrl)
        c2 == SetItem(c1, "mode", ChatMode)
        c3 == IF mdl \in ToolCallModels
                THEN SetItem(SetItem(c2, "function_calling_type", "tool_call"),
                             "stream_function_calling", "support")
                ELSE SetItem(SetItem(c2, "function_calling_type", None),
                             "stream_function_calling", "no_support")
    IN  IF mdl = "HCX-005"
          THEN SetItem(c3, "vision_support", "support")
          ELSE SetItem(c3, "vision_support", "no_support")

_add_custom_parameters(creds, mdl) ==
    LET c1 == SetItem(creds, "endpoint_url", EndpointUrl)
        c2 == SetItem(c1, "mode", ChatMode)
        c3 == IF mdl \in ToolCallModels
                THEN SetItem(SetItem(c2, "function_calling_type", "tool_call"),
                             "stream_function_calling", "support")
                ELSE SetItem(SetItem(c2, "function_calling_type", None),
                             "stream_function_calling", "no_support")
    IN  IF mdl = "HCX-005"
          THEN SetItem(c3, "vision_support", "support")
          ELSE SetItem(c3, "vision_support", "no_support")

-----------------------------------------------------------------------------
(* _update_model_parameters: the dict after the call, which is also the    *)
(* value returned (the method returns the dict it was given).              *)

\* Variants of _update_model_parameters with one slip each.
\* The default is written whether or not the caller gave a value.
_update_model_parameters_overwrite_effort(mdl, params) ==
    LET p1 == IF mdl = "HCX-007"
                THEN SetItem(params, "reasoning_effort", "medium")
                ELSE params
    IN  IF "max_tokens" \in DOMAIN p1 /\ mdl = "HCX-007"
          THEN SetItem(Popped(p1, "max_tokens"), "max_completion_tokens", p1["max_tokens"])
          ELSE p1

\* max_tokens is read with [] instead of pop(), so it stays in the dict.
_update_model_parameters_no_pop(mdl, params) ==
    LET p1 == IF mdl = "HCX-007" /\ "reasoning_effort" \notin DOMAIN params
                THEN SetItem(params, "reasoning_effort", "medium")
                ELSE params
    IN  IF "max_tokens" \in DOMAIN p1 /\ mdl = "HCX-007"
          THEN SetItem(p1, "max_completion_tokens", p1["max_tokens"])
          ELSE p1

\* The rename is not restricted to HCX-007.
_update_model_parameters_rename_any_model(mdl, params) ==
    LET p1 == IF mdl = "HCX-007" /\ "reasoning_effort" \notin DOMAIN params
                THEN SetItem(params, "reasoning_effort", "medium")
                ELSE params
    IN  IF "max_tokens" \in DOMAIN p1
          THEN SetItem(Popped(p1, "max_tokens"), "max_completion_tokens", p1["max_tokens"])
          ELSE p1

\* max_completion_tokens is written with setdefault: a value already there is kept.
_update_model_parameters_setdefault_tokens(mdl, params) ==
    LET p1 == IF mdl = "HCX-007" /\ "reasoning_effort" \notin DOMAIN params
                THEN SetItem(params, "reasoning_effort", "medium")
                ELSE params
    IN  IF "max_tokens" \in DOMAIN p1 /\ mdl = "HCX-007"
          THEN IF "max_completion_tokens" \in DOMAIN p1
                 THEN Popped(p1, "max_tokens")
                 ELSE SetItem(Popped(p1, "max_tokens"), "max_completion_tokens",
                              p1["max_tokens"])
          ELSE p1

_update_model_parameters(mdl, params) ==
    LET p1 == IF mdl = "HCX-007" /\ "reasoning_effort" \notin DOMAIN params
                THEN SetItem(params, "reasoning_effort", "medium")
                ELSE params
    IN  IF "max_tokens" \in DOMAIN p1 /\ mdl = "HCX-007"
          THEN SetItem(Popped(p1, "max_tokens"), "max_completion_tokens", p1["max_tokens"])
          ELSE p1

-----------------------------------------------------------------------------
(* The facade.  Each operator gives the caller's dicts after the call and  *)
(* the arguments the base client's entry point was called with.  The base  *)
(* client's _invoke takes user as an eighth parameter defaulting to None.  *)

\* Variant of _invoke that runs the parameter mapper on the caller's dict.
_invoke_mapping_parameters(mdl, creds, prompt_messages, params, tools, stop, stream, user) ==
    LET c == _add_custom_parameters(creds, mdl)
        p == _update_model_parameters(mdl, params)
    IN  [credentials      |-> c,
         model_parameters |-> p,
         base |-> [called           |-> TRUE,
                   model            |-> mdl,
                   credentials      |-> c,
                   prompt_messages  |-> prompt_messages,
                   model_parameters |-> p,
                   tools            |-> tools,
                   stop             |-> stop,
                   stream           |-> stream,
                   user             |-> None]]

_invoke(mdl, creds, prompt_messages, params, tools, stop, stream, user) ==
    LET c == _add_custom_parameters(creds, mdl)
    IN  [credentials      |-> c,
         model_parameters |-> params,
         base |-> [called           |-> TRUE,
                   model            |-> mdl,
                   credentials      |-> c,
                   prompt_messages  |-> prompt_messages,
                   model_parameters |-> params,
                   tools            |-> tools,
                   stop             |-> stop,
                   stream           |-> stream,
                   user             |-> None]]

\* Variant of validate_credentials that delegates first and augments afterwards.
validate_credentials_augment_late(mdl, creds) ==
    [credentials |-> _add_custom_parameters(creds, mdl),
     base        |-> [called |-> TRUE, model |-> mdl, credentials |-> creds]]

validate_credentials(mdl, creds) ==
    LET c == _add_custom_parameters(creds, mdl)
    IN  [credentials |-> c,
         base        |-> [called |-> TRUE, model |-> mdl, credentials |-> c]]

-----------------------------------------------------------------------------
(* Inputs. *)

\* the five identifiers the source names, and one it does not
Models == {"HCX-007", "HCX-005", "HCX-DASH-002", "HCX-003", "HCX-DASH-001", "HCX-999"}

TokenValues == 1..MaxTokenValue

\* credentials as a caller may hand them over: with or without an API key, and
\* with any of the five flag keys already holding some other value
CredentialInputs ==
    { Merge(Merge(Merge(a, b), Merge(c, d)), Merge(e, f)) :
        a \in Optional("api_key", {"nv-key"}),
        b \in Optional("endpoint_url", {"https://example.invalid/v1"}),
        c \in Optional("mode", {"completion"}),
        d \in Optional("function_calling_type", {"function_call"}),
        e \in Optional("stream_function_calling", {"support"}),
        f \in Optional("vision_support", {"support"}) }

\* parameter dicts for the mapper
ParamInputs ==
    { Merge(Merge(a, b), Merge(c, d)) :
        a \in Optional("reasoning_effort", {"low", "medium", "high"}),
        b \in Optional("max_tokens", TokenValues),
        c \in Optional("max_completion_tokens", TokenValues),
        d \in Optional("top_k", {40}) }

PromptInputs == {<<"hello">>, <<"be brief", "hello">>}
ToolInputs   == <<None, <<"get_weather">>>>
StopInputs   == <<None, <<"END">>>>
UserInputs   == {None, "user-1"}

-----------------------------------------------------------------------------
(* States in which nothing has been called yet. *)

NoCall ==
    [entry |-> "none", model |-> None, prompt_messages |-> <<>>,
     model_parameters |-> EmptyDict, tools |-> None, stop |-> None,
     stream |-> FALSE, user |-> None]

NoInvoke ==
    [called |-> FALSE, model |-> None, credentials |-> EmptyDict,
     prompt_messages |-> <<>>, model_parameters |-> EmptyDict, tools |-> None,
     stop |-> None, stream |-> FALSE, user |-> None]

NoValidate == [called |-> FALSE, model |-> None, credentials |-> EmptyDict]

-----------------------------------------------------------------------------------------------------------------------------------------------------
(* The two facade actions: the caller passes its credentials dict and,     *)
(* to _invoke, a parameters dict.                                          *)

Invoke(mdl, prompt_messages, params, tools, stop, stream, user) ==
    LET r == _invoke(mdl, credentials, prompt_messages, params, tools, stop, stream, user)
    IN  /\ credentials' = r.credentials
        /\ model_parameters' = r.model_parameters
        /\ base_invoke' = r.base
        /\ call' = [entry |-> "_invoke", model |-> mdl,
                    prompt_messages |-> prompt_messages, model_parameters |-> params,
                    tools |-> tools, stop |-> stop, stream |-> stream, user |-> user]
        /\ UNCHANGED <<base_validate, model, param_in, returned>>

ValidateCredentials(mdl) ==
    LET r == validate_credentials(mdl, credentials)
    IN  /\ credentials' = r.credentials
        /\ base_validate' = r.base
        /\ call' = [NoCall EXCEPT !.entry = "validate_credentials", !.model = mdl]
        /\ UNCHANGED <<model_parameters, base_invoke, model, param_in, returned>>

-----------------------------------------------------------------------------
(* SpecFacade: a caller holds one credentials dict, of any content, and    *)
(* passes it to any sequence of _invoke and validate_credentials calls,    *)
(* for any models; tools and stop are left at their defaults.              *)

InitFacade ==
    /\ credentials \in CredentialInputs
    /\ model_parameters = EmptyDict
    /\ call = NoCall
    /\ base_invoke = NoInvoke
    /\ base_validate = NoValidate
    /\ model = None
    /\ param_in = EmptyDict
    /\ returned = <<>>

NextFacade ==
    \/ \E mdl \in Models, stream \in BOOLEAN, user \in UserInputs :
            Invoke(mdl, <<"hello">>, EmptyDict, None, None, stream, user)
    \/ \E mdl \in Models : ValidateCredentials(mdl)

SpecFacade == InitFacade /\ [][NextFacade]_vars

-----------------------------------------------------------------------------
(* SpecInvoke: one _invoke call, over every combination of arguments.      *)
(* call holds the arguments from the start; the action makes the call.     *)

InitInvoke ==
    /\ credentials \in Optional("api_key", {"nv-key"})
    /\ \E mdl \in Models, prompt_messages \in PromptInputs, params \in ParamInputs,
          t \in DOMAIN ToolInputs, s \in DOMAIN StopInputs, stream \in BOOLEAN,
          user \in UserInputs :
            call = [entry |-> "_invoke", model |-> mdl,
                    prompt_messages |-> prompt_messages, model_parameters |-> params,
                    tools |-> ToolInputs[t], stop |-> StopInputs[s],
                    stream |-> stream, user |-> user]
    /\ model_parameters = call.model_parameters
    /\ base_invoke = NoInvoke
    /\ base_validate = NoValidate
    /\ model = None
    /\ param_in = EmptyDict
    /\ returned = <<>>

NextInvoke ==
    Invoke(call.model, call.prompt_messages, model_parameters, call.tools, call.stop,
           call.stream, call.user)

SpecInvoke == InitInvoke /\ [][NextInvoke]_vars

-----
(* The mapper, applied to one dict up to MaxApply times in a row.          *)

InitMapper ==
    /\ model \in Models
    /\ param_in \in ParamInputs
    /\ model_parameters = param_in
    /\ returned = <<>>
    /\ credentials = EmptyDict
    /\ call = NoCall
    /\ base_invoke = NoInvoke
    /\ base_validate = NoValidate

UpdateModelParameters ==
    /\ Len(returned) < MaxApply
    /\ LET r == _update_model_parameters(model, model_parameters)
       IN  /\ model_parameters' = r
           /\ returned' = Append(returned, r)
    /\ UNCHANGED <<credentials, call, base_invoke, base_validate, model, param_in>>

NextMapper == UpdateModelParameters

SpecMapper == InitMapper /\ [][NextMapper]_vars

-----------------------------------------------------------------------------
(* Properties of the credential augmenter (SpecFacade).                    *)

\* the flags part of a credentials dict
Flags(creds) == [k \in FlagKeys \cap DOMAIN creds |-> creds[k]]

\* C1: after an augmentation for model m, whatever the dict held before,
\* function_calling_type = "tool_call" and stream_function_calling = "support"
\* when m is HCX-007, HCX-005 or HCX-DASH-002, and function_calling_type is None
\* and stream_function_calling = "no_support" for every other m.
C1_FunctionCallingFlags ==
    call.entry # "none" =>
        /\ {"function_calling_type", "stream_function_calling"} \subseteq DOMAIN credentials
        /\ IF call.model \in {"HCX-007", "HCX-005", "HCX-DASH-002"}
             THEN /\ credentials["function_calling_type"] = "tool_call"
                  /\ credentials["stream_function_calling"] = "support"
             ELSE /\ credentials["function_calling_type"] = None
                  /\ credentials["stream_function_calling"] = "no_support"

\* an augmentation for a model without tool calls, on a dict that an earlier
\* validation for HCX-005 had filled in
C1_Witness ==
    /\ base_validate.called
    /\ base_validate.model = "HCX-005"
    /\ call.entry = "_invoke"
    /\ call.model = "HCX-DASH-001"
    /\ credentials["function_calling_type"] = None
    /\ credentials["stream_function_calling"] = "no_support"

\* C2: after an augmentation for model m, whatever the dict held before,
\* vision_support = "support" if and only if m = "HCX-005", and "no_support"
\* for every other m.
C2_VisionSupport ==
    call.entry # "none" =>
        /\ "vision_support" \in DOMAIN credentials
        /\ credentials["vision_support"] \in {"support", "no_support"}
        /\ credentials["vision_support"] = "support" <=> call.model = "HCX-005"

\* a validation for HCX-007 on a dict that an earlier _invoke for HCX-005 had
\* filled in
C2_Witness ==
    /\ base_invoke.called
    /\ base_invoke.model = "HCX-005"
    /\ call.entry = "validate_credentials"
    /\ call.model = "HCX-007"
    /\ credentials["vision_support"] = "no_support"

\* C3: after one or more augmentations, for any models and from any dict, all
\* five keys are present, endpoint_url is the vendor URL and mode is "chat".
C3_FiveKeysFixedEndpointAndMode ==
    call.entry # "none" =>
        /\ FlagKeys \subseteq DOMAIN credentials
        /\ credentials["endpoint_url"] = "https://clovastudio.stream.ntruss.com/v1/openai"
        /\ credentials["mode"] = "chat"

\* both entry points have run, for two different models, one with tool calls
\* and one without
C3_Witness ==
    /\ base_invoke.called
    /\ base_validate.called
    /\ base_invoke.model = "HCX-DASH-002"
    /\ base_validate.model = "HCX-999"
    /\ FlagKeys \subseteq DOMAIN credentials
    /\ credentials["mode"] = "chat"

\* C4: each base entry point receives credentials that are already augmented,
\* and for the same model the two entry points receive the same endpoint_url,
\* mode, function_calling_type, stream_function_calling and vision_support.
C4_SameAugmentationOnBothPaths ==
    /\ base_invoke.called => FlagKeys \subseteq DOMAIN base_invoke.credentials
    /\ base_validate.called => FlagKeys \subseteq DOMAIN base_validate.credentials
    /\ (base_invoke.called /\ base_validate.called
            /\ base_invoke.model = base_validate.model)
          => Flags(base_invoke.credentials) = Flags(base_validate.credentials)

\* both entry points have been called for HCX-005
C4_Witness ==
    /\ base_invoke.called
    /\ base_validate.called
    /\ base_invoke.model = "HCX-005"
    /\ base_validate.model = "HCX-005"
    /\ base_validate.credentials["vision_support"] = "support"

-----------------------------------------------------------------------------
(* Properties of _invoke (SpecInvoke).                                     *)

\* C5: the base client's _invoke receives the caller's prompt messages, tools,
\* stop sequences, streaming flag and user identifier unchanged.
C5_RequestForwardedUnchanged ==
    base_invoke.called =>
        /\ base_invoke.prompt_messages = call.prompt_messages
        /\ base_invoke.tools = call.tools
        /\ base_invoke.stop = call.stop
        /\ base_invoke.stream = call.stream
        /\ base_invoke.user = call.user

\* C10: _invoke never applies the parameter mapper: the base client receives
\* exactly the keys and values the caller supplied, and the caller's dict is
\* not changed.
C10_InvokeLeavesParametersAlone ==
    base_invoke.called =>
        /\ base_invoke.model_parameters = call.model_parameters
        /\ model_parameters = call.model_parameters

\* an _invoke for HCX-007 with max_tokens and without reasoning_effort
C10_Witness ==
    /\ base_invoke.called
    /\ base_invoke.model = "HCX-007"
    /\ "max_tokens" \in DOMAIN base_invoke.model_parameters
    /\ "reasoning_effort" \notin DOMAIN base_invoke.model_parameters
    /\ "max_completion_tokens" \notin DOMAIN base_invoke.model_parameters

-----------------------------------------------------------------------------
(* Properties of the parameter mapper (SpecMapper).                        *)

Applied == Len(returned) >= 1

\* C6: for HCX-007 the mapper inserts reasoning_effort = "medium" when the
\* key is absent (so {} becomes {"reasoning_effort": "medium"}) and leaves a
\* caller-supplied value as it is.
C6_ReasoningEffortDefault ==
    (model = "HCX-007" /\ Applied) =>
        /\ "reasoning_effort" \in DOMAIN returned[1]
        /\ returned[1]["reasoning_effort"] =
              IF "reasoning_effort" \in DOMAIN param_in
                THEN param_in["reasoning_effort"]
                ELSE "medium"
        /\ param_in = EmptyDict => returned[1] = [reasoning_effort |-> "medium"]

\* the caller gave "high" and it is still there
C6_Witness ==
    /\ model = "HCX-007"
    /\ Applied
    /\ "reasoning_effort" \in DOMAIN param_in
    /\ param_in["reasoning_effort"] = "high"
    /\ returned[1]["reasoning_effort"] = "high"

\* C7 as stated: for HCX-007 the dict whose only entry is max_tokens = v
\* becomes {"max_completion_tokens": v}.
C7_AsStated ==
    (model = "HCX-007" /\ Applied /\ DOMAIN param_in = {"max_tokens"}) =>
        returned[1] = [max_completion_tokens |-> param_in["max_tokens"]]

\* C7: for HCX-007 the dict whose only entry is max_tokens = v becomes
\* {"reasoning_effort": "medium", "max_completion_tokens": v}, with max_tokens
\* absent.
C7_RenameOfSoleMaxTokens ==
    (model = "HCX-007" /\ Applied /\ DOMAIN param_in = {"max_tokens"}) =>
        /\ "max_tokens" \notin DOMAIN returned[1]
        /\ returned[1] = [reasoning_effort |-> "medium",
                          max_completion_tokens |-> param_in["max_tokens"]]

\* the mapper has run on {"max_tokens": 2}
C7_Witness ==
    /\ model = "HCX-007"
    /\ Applied
    /\ param_in = [max_tokens |-> 2]
    /\ returned[1]["max_completion_tokens"] = 2

\* C8: for every model other than HCX-007 the mapper is the identity, also
\* when max_tokens is present or reasoning_effort is absent.
C8_IdentityForOtherModels ==
    (model # "HCX-007" /\ Applied) =>
        /\ returned[1] = param_in
        /\ model_parameters = param_in

\* the mapper has run for HCX-005 on a dict with max_tokens and without
\* reasoning_effort
C8_Witness ==
    /\ model = "HCX-005"
    /\ Applied
    /\ "max_tokens" \in DOMAIN param_in
    /\ "reasoning_effort" \notin DOMAIN param_in
    /\ "max_tokens" \in DOMAIN returned[1]

\* C9: for HCX-007 and a dict with max_tokens = v, afterwards max_tokens is
\* absent and max_completion_tokens = v (also when the dict held another
\* max_completion_tokens), every key other than max_tokens,
\* max_completion_tokens and reasoning_effort keeps its value, and applying
\* the mapper again changes nothing.
C9_RenameExactAndIdempotent ==
    (model = "HCX-007" /\ Applied /\ "max_tokens" \in DOMAIN param_in) =>
        LET others(d) == DOMAIN d \ {"max_tokens", "max_completion_tokens",
                                     "reasoning_effort"}
        IN  /\ "max_tokens" \notin DOMAIN returned[1]
            /\ "max_completion_tokens" \in DOMAIN returned[1]
            /\ returned[1]["max_completion_tokens"] = param_in["max_tokens"]
            /\ others(returned[1]) = others(param_in)
            /\ \A k \in others(param_in) : returned[1][k] = param_in[k]
            /\ \A i \in 2..Len(returned) : returned[i] = returned[1]

\* the mapper has run twice on a dict that held max_tokens = 1, another
\* max_completion_tokens and top_k
C9_Witness ==
    /\ model = "HCX-007"
    /\ Len(returned) >= 2
    /\ "max_tokens" \in DOMAIN param_in
    /\ param_in["max_tokens"] = 1
    /\ "max_completion_tokens" \in DOMAIN param_in
    /\ param_in["max_completion_tokens"] = 2
    /\ "top_k" \in DOMAIN param_in
    /\ model_parameters["max_completion_tokens"] = 1

====
